---- MODULE Spec2Model ----
(***************************************************************************)
(* Plain <-> OpenPhone bridge (src/src/index.ts).                          *)
(*                                                                         *)
(* Strings are sequences of tokens (each token a TLA+ string); <<>> is the *)
(* empty string, which JavaScript treats as falsy.  Times are epoch        *)
(* milliseconds.  One action is one stretch of a handler between two       *)
(* awaits of an outbound fetch, together with the platform's reaction to   *)
(* that fetch.                                                             *)
(***************************************************************************)
EXTENDS Integers, Sequences, FiniteSets, TLC

----------------------------------------------------------------------------
(* Bounds and input sets                                                   *)

\* Three input profiles.  "flow" follows several deliveries, handled one after
\* the other, over few payloads; "wide" follows single deliveries over every
\* payload, CRM answer and event type; "race" follows deliveries handled at the
\* same time; "pair" follows two deliveries, handled one after the other, over
\* the spellings of a number, both call directions and a CRM match; "late"
\* follows the deliveries of one number over a longer time.
MaxEvents == 3          \* flow: webhook deliveries in one run
MaxEventsWide == 1      \* wide: webhook deliveries in one run
MaxEventsRace == 2      \* race: webhook deliveries in one run
MaxEventsPair == 2      \* pair: webhook deliveries in one run
MaxEventsLate == 3      \* late: webhook deliveries in one run
MaxInFlight == 2        \* race: requests being handled at the same time
MaxChats == 1           \* chats human agents write in one run

EventBound(profile) ==
    CASE profile = "wide" -> MaxEventsWide
      [] profile = "race" -> MaxEventsRace
      [] profile = "pair" -> MaxEventsPair
      [] profile = "late" -> MaxEventsLate
      [] OTHER -> MaxEvents

FlightBound(profile) == IF profile = "race" THEN MaxInFlight ELSE 1

TwelveHoursMs == 12 * 60 * 60 * 1000

\* The instants at which the clock is observed: both sides of the boundary.
TimePoints == {0, TwelveHoursMs - 1, TwelveHoursMs}

\* A later instant: 12 hours after the second one.
LateTimePoint == 2 * TwelveHoursMs - 1

OutboundNumber == <<"+16464441357">>
Phones == {<<"+15551234567">>, <<"+15557654321">>}

\* MessageData.from / CallData.from are whatever string the sender put there:
\* one number written in two ways, and a value that is no number at all.
PhoneForms == {<<"+1", "555", "010", "0199">>,
               <<"+1", " ", "555", " ", "010", " ", "0199">>}
NotAPhone == <<"anonymous">>

PhonesOf(profile) ==
    CASE profile = "pair" -> PhoneForms \cup {NotAPhone}
      [] profile = "late" -> {<<"+15551234567">>}
      [] OTHER -> Phones

Bodies == {<<>>, <<"hello">>}
MediaItem == [type |-> "image/png", url |-> "https://m.example/1.png"]
MediaItem2 == [type |-> "video/mp4", url |-> "https://m.example/2.mp4"]
MediaLists == {<<>>, <<MediaItem>>, <<MediaItem, MediaItem2>>}
ChatTexts == {<<>>, <<"reply">>}

OpenPhoneTypes == {"call.completed", "call.transcript.completed",
                   "message.received", "message.delivered", "thread.chat_sent"}
PlainTypes == {"thread.chat_sent", "thread.created", "message.received"}
\* "undefined": createdBy carries no actorType
ActorTypes == {"user", "machineUser", "undefined"}
Directions == {"incoming", "outgoing"}

----------------------------------------------------------------------------
(* Pure helpers                                                            *)

Space == " "

RECURSIVE TrimStart(_)
TrimStart(s) == IF s # <<>> /\ Head(s) = Space THEN TrimStart(Tail(s)) ELSE s

RECURSIVE TrimEnd(_)
TrimEnd(s) ==
    IF s # <<>> /\ s[Len(s)] = Space THEN TrimEnd(SubSeq(s, 1, Len(s) - 1)) ELSE s

Trim(s) == TrimEnd(TrimStart(s))

RECURSIVE JoinReversed(_, _)
JoinReversed(lines, sep) ==
    IF lines = <<>> THEN <<>>
    ELSE IF Len(lines) = 1 THEN lines[1]
    ELSE JoinReversed(Tail(lines), sep) \o sep \o lines[1]

RECURSIVE Join(_, _)
Join(lines, sep) ==
    IF lines = <<>> THEN <<>>
    ELSE IF Len(lines) = 1 THEN lines[1]
    ELSE lines[1] \o sep \o Join(Tail(lines), sep)

MediaLine(item) == <<item.type, ": ", item.url>>

\* sendCustomerChatToPlain: the text of the relayed chat
FullMessage(message, media) ==
    IF Len(media) > 0
    THEN LET mediaUrls == Join([i \in 1..Len(media) |-> MediaLine(media[i])], <<"\n">>)
         IN  IF message # <<>> THEN message \o <<"\n\n">> \o mediaUrls ELSE mediaUrls
    ELSE message

SmsThreadTitle(phoneNumber) == <<"SMS conversation with ">> \o phoneNumber

CallThreadTitle(direction, phoneNumber) ==
    <<"Call ", IF direction = "incoming" THEN "from" ELSE "to", " ">> \o phoneNumber

CallPhoneNumberFrom(callData) == callData.from

CallPhoneNumber(callData) ==
    IF callData.direction = "incoming" THEN callData.from ELSE callData.to

----------------------------------------------------------------------------
(* CRM enrichment                                                          *)

NullContact ==
    [some |-> FALSE, firstName |-> <<>>, lastName |-> <<>>, email |-> <<>>,
     phone |-> <<>>]

\* What a CRM search settles to.  results are the 'properties' of the hits.
Rejected == [status |-> "rejected", ok |-> FALSE, parses |-> FALSE, results |-> <<>>]
NotOk == [status |-> "fulfilled", ok |-> FALSE, parses |-> TRUE, results |-> <<>>]
BadBody == [status |-> "fulfilled", ok |-> TRUE, parses |-> FALSE, results |-> <<>>]
Found(results) ==
    [status |-> "fulfilled", ok |-> TRUE, parses |-> TRUE, results |-> results]

ContactHits(phoneNumber) ==
    {[firstname |-> <<"Ann">>, lastname |-> <<"Lee">>, email |-> <<"ann@acme.io">>,
      name |-> <<>>, domain |-> <<>>, phone |-> phoneNumber],
     [firstname |-> <<"Bo">>, lastname |-> <<>>, email |-> <<>>,
      name |-> <<>>, domain |-> <<>>, phone |-> phoneNumber],
     [firstname |-> <<>>, lastname |-> <<>>, email |-> <<>>,
      name |-> <<>>, domain |-> <<>>, phone |-> phoneNumber]}

CompanyHits(phoneNumber) ==
    {[firstname |-> <<>>, lastname |-> <<>>, email |-> <<>>,
      name |-> <<"Acme">>, domain |-> <<"acme.io">>, phone |-> phoneNumber],
     [firstname |-> <<>>, lastname |-> <<>>, email |-> <<>>,
      name |-> <<>>, domain |-> <<>>, phone |-> phoneNumber]}

ContactResponses(phoneNumber, profile) ==
    IF profile = "wide"
    THEN {Rejected, NotOk, BadBody, Found(<<>>)}
            \cup {Found(<<h>>) : h \in ContactHits(phoneNumber)}
    ELSE IF profile = "pair"
    THEN {Found(<<>>)}
            \cup {Found(<<h>>) : h \in {x \in ContactHits(phoneNumber) : x.lastname # <<>>}}
    ELSE {Found(<<>>)}

CompanyResponses(phoneNumber, profile) ==
    IF profile = "wide"
    THEN {Rejected, NotOk, BadBody, Found(<<>>)}
            \cup {Found(<<h>>) : h \in CompanyHits(phoneNumber)}
    ELSE {Found(<<>>)}

\* The body of lookupHubSpotContact's try block: what it returns, or that it threw.
LookupTry(phoneNumber, contactsResponse, companiesResponse) ==
    LET contactsRead == contactsResponse.status = "fulfilled" /\ contactsResponse.ok
        companiesRead == companiesResponse.status = "fulfilled" /\ companiesResponse.ok
        contacts == IF contactsRead THEN contactsResponse.results ELSE <<>>
        companies == IF companiesRead THEN companiesResponse.results ELSE <<>>
    IN  IF contactsRead /\ ~contactsResponse.parses
        THEN [thrown |-> TRUE, value |-> NullContact]
        ELSE IF companiesRead /\ ~companiesResponse.parses
        THEN [thrown |-> TRUE, value |-> NullContact]
        ELSE IF Len(contacts) > 0
        THEN [thrown |-> FALSE,
              value |-> [some |-> TRUE,
                         firstName |-> contacts[1].firstname,
                         lastName |-> contacts[1].lastname,
                         email |-> contacts[1].email,
                         phone |-> contacts[1].phone]]
        ELSE IF Len(companies) > 0
        THEN [thrown |-> FALSE,
              value |-> [some |-> TRUE,
                         firstName |-> IF companies[1].name # <<>>
                                       THEN companies[1].name ELSE phoneNumber,
                         lastName |-> <<>>,
                         email |-> IF companies[1].domain # <<>>
                                   THEN <<"info@">> \o companies[1].domain ELSE <<>>,
                         phone |-> companies[1].phone]]
        ELSE [thrown |-> FALSE, value |-> NullContact]

LookupNoCatch(phoneNumber, contactsResponse, companiesResponse) ==
    LookupTry(phoneNumber, contactsResponse, companiesResponse)

\* lookupHubSpotContact: the try block, with the catch that returns null
LookupHubSpotContact(phoneNumber, contactsResponse, companiesResponse) ==
    LET r == LookupTry(phoneNumber, contactsResponse, companiesResponse)
    IN  IF r.thrown THEN [thrown |-> FALSE, value |-> NullContact] ELSE r

UpsertFullNameNoFallback(phoneNumber, hubspotContact) ==
    Trim(hubspotContact.firstName \o <<Space>> \o hubspotContact.lastName)

\* upsertCustomerInPlain: the fields of the mutation's input
UpsertFullName(phoneNumber, hubspotContact) ==
    IF hubspotContact.some
    THEN LET n == Trim(hubspotContact.firstName \o <<Space>> \o hubspotContact.lastName)
         IN  IF n # <<>> THEN n ELSE phoneNumber
    ELSE phoneNumber

UpsertEmail(hubspotContact) ==
    IF hubspotContact.some /\ hubspotContact.email # <<>>
    THEN hubspotContact.email ELSE <<>>

----------------------------------------------------------------------------
(* State                                                                   *)

VARIABLES
    now,        \* the clock (new Date())
    customers,  \* Plain: customers, in creation order; a customer's id is its index
    threads,    \* Plain: threads, in creation order; a thread's id is its index
    chats,      \* Plain: chats of all threads
    events,     \* Plain: thread events
    received,   \* how many webhook deliveries there have been
    reqs        \* the requests in flight, and those answered by the last step

vars == <<now, customers, threads, chats, events, received, reqs>>

NoData ==
    [from |-> <<>>, to |-> <<>>, direction |-> "incoming", body |-> <<>>,
     media |-> <<>>, duration |-> 0, callStatus |-> "", externalId |-> <<>>,
     text |-> <<>>, actorType |-> "user", chat |-> 0]

\* One outbound fetch as the handler issued it, and how it ended.  For a thread
\* listing: thread is the entry on top, age the time since its updatedAt, ret
\* what findRecentThreadForCustomer returned, relayedRecent the customer's
\* threads that hold a relayed SMS and were updated within the last 12 hours, and
\* relayedClean those of them whose SMS was relayed by a handler that saw no
\* failed call.  For a CRM search: results are the hits of the response.
Entry(op, out) ==
    [op |-> op, out |-> out, customer |-> 0, thread |-> 0, key |-> <<>>,
     text |-> <<>>, email |-> <<>>, from |-> <<>>, age |-> -1, ret |-> 0,
     relayedRecent |-> {}, relayedClean |-> {}, results |-> <<>>]

NewReq(endpoint, type, data, pc) ==
    [endpoint |-> endpoint, type |-> type, data |-> data, pc |-> pc,
     status |-> IF pc = "done" THEN 200 ELSE 0,
     hubspotContact |-> NullContact, customer |-> 0, thread |-> 0, log |-> <<>>]

InFlight == Cardinality({r \in 1..Len(reqs) : reqs[r].pc # "done"})

FinishRetry(req, status, entries) ==
    IF status = 500
    THEN [req EXCEPT !.log = req.log \o entries]
    ELSE [req EXCEPT !.pc = "done", !.status = status, !.log = req.log \o entries]

Finish(req, status, entries) ==
    [req EXCEPT !.pc = "done", !.status = status, !.log = req.log \o entries]

\* A request lives until it is answered: the requests still in flight.
Live == SelectSeq(reqs, LAMBDA q : q.pc # "done")

\* The requests after request r took a step that left it as q.
Step(r, q) ==
    LET marked == [i \in 1..Len(reqs) |->
                     IF i = r THEN [keep |-> TRUE, req |-> q]
                     ELSE [keep |-> reqs[i].pc # "done", req |-> reqs[i]]]
        kept == SelectSeq(marked, LAMBDA m : m.keep)
    IN  [i \in 1..Len(kept) |-> kept[i].req]

Init ==
    /\ now = 0
    /\ customers = <<>>
    /\ threads = <<>>
    /\ chats = <<>>
    /\ events = <<>>
    /\ received = 0
    /\ reqs = <<>>

----------------------------------------------------------------------------
(* The clock                                                               *)

Tick ==
    /\ \E t \in TimePoints : t > now /\ now' = t
    /\ reqs' = Live
    /\ UNCHANGED <<customers, threads, chats, events, received>>

TickLate ==
    /\ now < LateTimePoint
    /\ now' = LateTimePoint
    /\ reqs' = Live
    /\ UNCHANGED <<customers, threads, chats, events, received>>

----------------------------------------------------------------------------
(* POST /webhooks/openphone                                                *)

OpenPhoneData(type, profile) ==
    IF type = "message.received"
    THEN {[NoData EXCEPT !.from = p, !.to = OutboundNumber, !.body = b, !.media = m] :
            p \in PhonesOf(profile),
            b \in IF profile = "wide" THEN Bodies ELSE {<<"hello">>},
            m \in IF profile = "wide" THEN MediaLists ELSE {<<>>}}
    ELSE IF type = "call.completed"
    THEN {[NoData EXCEPT !.direction = d, !.duration = 125, !.callStatus = "completed",
                         !.from = IF d = "incoming" THEN p ELSE OutboundNumber,
                         !.to = IF d = "incoming" THEN OutboundNumber ELSE p] :
            p \in PhonesOf(profile),
            d \in IF profile \in {"wide", "pair"} THEN Directions ELSE {"incoming"}}
    ELSE {NoData}

OpenPhoneDispatchByPrefix(type) ==
    IF type \in {"call.completed", "message.received", "message.delivered"}
    THEN "lookup" ELSE "done"

\* The route's switch: where the handler of a payload type first awaits.
OpenPhoneDispatch(type) ==
    IF type \in {"call.completed", "message.received"} THEN "lookup" ELSE "done"

ReceiveOpenPhone(profile) ==
    /\ received < EventBound(profile)
    /\ InFlight < FlightBound(profile)
    /\ received' = received + 1
    /\ \E type \in IF profile = "wide" THEN OpenPhoneTypes
                   ELSE {"call.completed", "message.received"} :
         \E data \in OpenPhoneData(type, profile) :
            reqs' = Append(Live, NewReq("openphone", type, data, OpenPhoneDispatch(type)))
    /\ UNCHANGED <<now, customers, threads, chats, events>>

PhoneNumberOf(req) ==
    IF req.type = "call.completed" THEN CallPhoneNumber(req.data) ELSE req.data.from

ResponseClass(resp) ==
    IF resp.status = "rejected" THEN "rejected"
    ELSE IF ~resp.ok THEN "notOk"
    ELSE IF ~resp.parses THEN "badBody"
    ELSE "ok"

\* handleCallCompleted / handleMessageReceived: lookupHubSpotContact
Lookup(r, profile) ==
    /\ reqs[r].pc = "lookup"
    /\ LET phoneNumber == PhoneNumberOf(reqs[r]) IN
       \E contactsResponse \in ContactResponses(phoneNumber, profile),
          companiesResponse \in CompanyResponses(phoneNumber, profile) :
          LET res == LookupHubSpotContact(phoneNumber, contactsResponse, companiesResponse)
              searches ==
                  <<[Entry("searchContacts", ResponseClass(contactsResponse))
                        EXCEPT !.key = phoneNumber, !.results = contactsResponse.results],
                    [Entry("searchCompanies", ResponseClass(companiesResponse))
                        EXCEPT !.key = phoneNumber, !.results = companiesResponse.results]>>
          IN  reqs' = Step(r,
                  IF res.thrown
                  THEN Finish(reqs[r], 500, searches)
                  ELSE [reqs[r] EXCEPT !.pc = "upsert", !.hubspotContact = res.value,
                                 !.log = reqs[r].log \o searches])
    /\ UNCHANGED <<now, customers, threads, chats, events, received>>

PlainOutcomes == {"ok", "errors", "rejected"}

CustomerIdOf(externalId) ==
    IF \E i \in 1..Len(customers) : customers[i].externalId = externalId
    THEN CHOOSE i \in 1..Len(customers) : customers[i].externalId = externalId
    ELSE 0

OnUpdateOverwrite(customer, fullName, email) ==
    [customer EXCEPT !.fullName = fullName, !.email = email]

\* upsertCustomer on a customer that exists: the mutation's onUpdate is {}.
OnUpdate(customer, fullName, email) == customer

\* upsertCustomerInPlain
Upsert(r) ==
    /\ reqs[r].pc = "upsert"
    /\ LET phoneNumber == PhoneNumberOf(reqs[r])
           fullName == UpsertFullName(phoneNumber, reqs[r].hubspotContact)
           email == UpsertEmail(reqs[r].hubspotContact)
           existing == CustomerIdOf(phoneNumber)
           id == IF existing # 0 THEN existing ELSE Len(customers) + 1
       IN
       \E out \in PlainOutcomes :
          LET call == [Entry("upsertCustomer", out) EXCEPT
                          !.key = phoneNumber, !.text = fullName, !.email = email,
                          !.customer = IF out = "ok" THEN id ELSE 0]
          IN  /\ customers' =
                    IF out = "ok" /\ existing = 0
                    THEN Append(customers, [externalId |-> phoneNumber,
                                            fullName |-> fullName, email |-> email])
                    ELSE IF out = "ok"
                    THEN [customers EXCEPT
                            ![existing] = OnUpdate(customers[existing], fullName, email)]
                    ELSE customers
              /\ reqs' = Step(r,
                    IF out = "ok"
                    THEN [reqs[r] EXCEPT !.customer = id, !.log = Append(reqs[r].log, call),
                                   !.pc = IF reqs[r].type = "message.received"
                                          THEN "find" ELSE "create"]
                    ELSE Finish(reqs[r], 500, <<call>>))
    /\ UNCHANGED <<now, threads, chats, events, received>>

IsRecentInclusive(updatedAt, at) ==
    LET twelveHoursAgo == at - TwelveHoursMs
    IN  updatedAt >= twelveHoursAgo

\* A thread's updatedAt is within the last 12 hours.
IsRecent(updatedAt, at) ==
    LET twelveHoursAgo == at - TwelveHoursMs
    IN  updatedAt > twelveHoursAgo

CustomerThreadsUnfiltered(customerId) == 1..Len(threads)

CustomerThreads(customerId) ==
    {t \in 1..Len(threads) : threads[t].customer = customerId}

FirstListedByUpdate(customerId) ==
    {t \in {u \in 1..Len(threads) : threads[u].customer = customerId} :
        \A u \in {v \in 1..Len(threads) : threads[v].customer = customerId} :
            threads[u].updatedAt <= threads[t].updatedAt}

\* threads(filters: customerIds, sortBy: CREATED_AT DESC): what may come first.
\* Among threads created at the same instant the platform decides.
FirstListed(customerId) ==
    {t \in CustomerThreads(customerId) :
        \A u \in CustomerThreads(customerId) : threads[u].createdAt <= threads[t].createdAt}

RecentThreadNever(first, at) == 0

RecentThreadAlways(first, at) == first

\* findRecentThreadForCustomer, after the listing answered with thread `first`
\* on top (0: an empty listing): the thread it returns (0: null).
RecentThread(first, at) ==
    IF first = 0 THEN 0
    ELSE IF IsRecent(threads[first].updatedAt, at) THEN first
    ELSE 0

RelayedRecent(customerId, cleanOnly) ==
    {t \in CustomerThreads(customerId) :
        /\ \E c \in 1..Len(chats) :
              chats[c].thread = t /\ chats[c].relayed /\ (cleanOnly => chats[c].clean)
        /\ now - threads[t].updatedAt < TwelveHoursMs}

FindTouching(r) ==
    /\ reqs[r].pc = "find"
    /\ \E out \in PlainOutcomes :
         \E first \in IF out = "ok" /\ FirstListed(reqs[r].customer) # {}
                      THEN FirstListed(reqs[r].customer) ELSE {0} :
            LET ret == IF out = "ok" THEN RecentThread(first, now) ELSE 0
                call == [Entry("listThreads", out) EXCEPT
                            !.customer = reqs[r].customer, !.thread = first, !.ret = ret]
            IN  /\ threads' = IF first # 0
                               THEN [threads EXCEPT ![first].updatedAt = now] ELSE threads
                /\ reqs' = Step(r,
                       IF out = "rejected"
                       THEN Finish(reqs[r], 500, <<call>>)
                       ELSE [reqs[r] EXCEPT !.thread = ret,
                                            !.log = Append(reqs[r].log, call),
                                            !.pc = IF ret = 0 THEN "create" ELSE "send"])
    /\ UNCHANGED <<now, customers, chats, events, received>>

\* handleMessageReceived: findRecentThreadForCustomer
Find(r) ==
    /\ reqs[r].pc = "find"
    /\ \E out \in PlainOutcomes :
         \E first \in IF out = "ok" /\ FirstListed(reqs[r].customer) # {}
                      THEN FirstListed(reqs[r].customer) ELSE {0} :
            LET ret == IF out = "ok" THEN RecentThread(first, now) ELSE 0
                call == [Entry("listThreads", out) EXCEPT
                            !.customer = reqs[r].customer, !.thread = first,
                            !.age = IF first = 0 THEN -1
                                    ELSE now - threads[first].updatedAt,
                            !.ret = ret,
                            !.relayedRecent = RelayedRecent(reqs[r].customer, FALSE),
                            !.relayedClean = RelayedRecent(reqs[r].customer, TRUE)]
            IN  reqs' = Step(r,
                    IF out = "rejected"
                    THEN Finish(reqs[r], 500, <<call>>)
                    ELSE [reqs[r] EXCEPT !.thread = ret, !.log = Append(reqs[r].log, call),
                                   !.pc = IF ret = 0 THEN "create" ELSE "send"])
    /\ UNCHANGED <<now, customers, threads, chats, events, received>>

ThreadTitle(req) ==
    IF req.type = "call.completed"
    THEN CallThreadTitle(req.data.direction, PhoneNumberOf(req))
    ELSE SmsThreadTitle(PhoneNumberOf(req))

\* createThreadInPlain
CreateThread(r) ==
    /\ reqs[r].pc = "create"
    /\ \E out \in PlainOutcomes :
          LET id == Len(threads) + 1
              title == ThreadTitle(reqs[r])
              call == [Entry("createThread", out) EXCEPT
                          !.customer = reqs[r].customer, !.text = title,
                          !.thread = IF out = "ok" THEN id ELSE 0]
          IN  /\ threads' =
                    IF out = "ok"
                    THEN Append(threads, [customer |-> reqs[r].customer, title |-> title,
                                          createdAt |-> now, updatedAt |-> now])
                    ELSE threads
              /\ reqs' = Step(r,
                    IF out = "ok"
                    THEN [reqs[r] EXCEPT !.thread = id, !.log = Append(reqs[r].log, call),
                                   !.pc = IF reqs[r].type = "message.received"
                                          THEN "send" ELSE "event"]
                    ELSE Finish(reqs[r], 500, <<call>>))
    /\ UNCHANGED <<now, customers, chats, events, received>>

Touch(t) == [threads EXCEPT ![t].updatedAt = now]

\* What the route answers once the last fetch of a handler that does not read
\* the response has settled: only a rejected fetch throws.
StatusUnread(out) == IF out = "rejected" THEN 500 ELSE 200

\* handleMessageReceived: sendCustomerChatToPlain.  The chat is written with the
\* bridge's API key, so Plain records a machine user as its author.
SendChat(r) ==
    /\ reqs[r].pc = "send"
    /\ \E out \in PlainOutcomes :
          LET text == FullMessage(reqs[r].data.body, reqs[r].data.media)
              call == [Entry("sendCustomerChat", out) EXCEPT
                          !.customer = reqs[r].customer, !.thread = reqs[r].thread,
                          !.text = text]
          IN  /\ chats' =
                    IF out = "ok"
                    THEN Append(chats, [thread |-> reqs[r].thread,
                                        customer |-> reqs[r].customer, text |-> text,
                                        actorType |-> "machineUser", relayed |-> TRUE,
                                        clean |-> \A i \in 1..Len(reqs[r].log) :
                                                     reqs[r].log[i].out = "ok"])
                    ELSE chats
              /\ threads' = IF out = "ok" THEN Touch(reqs[r].thread) ELSE threads
              /\ reqs' = Step(r, Finish(reqs[r], StatusUnread(out), <<call>>))
    /\ UNCHANGED <<now, customers, events, received>>

\* The lines of the call summary (start and end times are passed through).
CallSummary(callData) ==
    [minutes |-> callData.duration \div 60, seconds |-> callData.duration % 60,
     direction |-> callData.direction, status |-> callData.callStatus]

\* handleCallCompleted: createThreadEvent
CreateEvent(r) ==
    /\ reqs[r].pc = "event"
    /\ \E out \in PlainOutcomes :
          LET call == [Entry("createThreadEvent", out) EXCEPT
                          !.thread = reqs[r].thread, !.key = <<"Call Completed">>,
                          !.text = CallSummary(reqs[r].data)]
          IN  /\ events' =
                    IF out = "ok"
                    THEN Append(events, [thread |-> reqs[r].thread,
                                         title |-> <<"Call Completed">>,
                                         text |-> CallSummary(reqs[r].data)])
                    ELSE events
              /\ threads' = IF out = "ok" THEN Touch(reqs[r].thread) ELSE threads
              /\ reqs' = Step(r, Finish(reqs[r], StatusUnread(out), <<call>>))
    /\ UNCHANGED <<now, customers, chats, received>>

----------------------------------------------------------------------------
(* POST /webhooks/plain                                                    *)

IsMachineUserInverted(actorType) == actorType = "user"

IsMachineUserWrongLiteral(actorType) == actorType = "machine_user"

\* The echo guard of handlePlainChatMessage.
IsMachineUser(actorType) == actorType = "machineUser"

PlainChatStepNoGuard(data) ==
    IF IsMachineUser(data.actorType) THEN "done" ELSE "sms"

\* handlePlainChatMessage up to its only await: "sms" when it goes on to send.
PlainChatStep(data) ==
    IF data.externalId = <<>> \/ data.text = <<>> THEN "done"
    ELSE IF IsMachineUser(data.actorType) THEN "done"
    ELSE "sms"

PlainDispatch(type, data) ==
    IF type = "thread.chat_sent" THEN PlainChatStep(data) ELSE "done"

PlainData(type) ==
    IF type = "thread.chat_sent"
    THEN {[NoData EXCEPT !.externalId = x, !.text = t, !.actorType = a] :
            x \in Phones \cup {<<>>}, t \in ChatTexts, a \in ActorTypes}
    ELSE {NoData}

\* Any envelope posted to the endpoint.
ReceivePlain(profile) ==
    /\ received < EventBound(profile)
    /\ InFlight < FlightBound(profile)
    /\ received' = received + 1
    /\ \E type \in PlainTypes :
         \E data \in PlainData(type) :
            reqs' = Append(Live, NewReq("plain", type, data, PlainDispatch(type, data)))
    /\ UNCHANGED <<now, customers, threads, chats, events>>

\* Plain delivers (or delivers again) thread.chat_sent for a chat of a thread.
PlainDeliversChat(profile) ==
    /\ received < EventBound(profile)
    /\ InFlight < FlightBound(profile)
    /\ received' = received + 1
    /\ \E c \in 1..Len(chats) :
          LET data == [NoData EXCEPT
                          !.externalId = customers[chats[c].customer].externalId,
                          !.text = chats[c].text,
                          !.actorType = chats[c].actorType,
                          !.chat = c]
          IN  reqs' = Append(Live, NewReq("plain", "thread.chat_sent", data,
                                          PlainDispatch("thread.chat_sent", data)))
    /\ UNCHANGED <<now, customers, threads, chats, events>>

\* A support agent answers in a thread.
AgentChat ==
    /\ Cardinality({c \in 1..Len(chats) : ~chats[c].relayed}) < MaxChats
    /\ \E t \in 1..Len(threads) :
          /\ chats' = Append(chats, [thread |-> t, customer |-> threads[t].customer,
                                     text |-> <<"reply">>, actorType |-> "user",
                                     relayed |-> FALSE, clean |-> TRUE])
          /\ threads' = Touch(t)
    /\ reqs' = Live
    /\ UNCHANGED <<now, customers, events, received>>

SmsOutcomes == {"ok", "notOk", "rejected"}

\* handlePlainChatMessage: sendSMSViaOpenPhone
SendSMS(r) ==
    /\ reqs[r].pc = "sms"
    /\ \E out \in SmsOutcomes :
          LET call == [Entry("sendSMS", out) EXCEPT
                          !.from = OutboundNumber, !.key = reqs[r].data.externalId,
                          !.text = reqs[r].data.text]
          IN  reqs' = Step(r,
                          Finish(reqs[r], IF out = "ok" THEN 200 ELSE 500, <<call>>))
    /\ UNCHANGED <<now, customers, threads, chats, events, received>>

----------------------------------------------------------------------------

Next ==
    \/ Tick
    \/ ReceiveOpenPhone("flow")
    \/ PlainDeliversChat("flow")
    \/ AgentChat
    \/ \E r \in 1..Len(reqs) : Lookup(r, "flow")
    \/ \E r \in 1..Len(reqs) : Upsert(r)
    \/ \E r \in 1..Len(reqs) : Find(r)
    \/ \E r \in 1..Len(reqs) : CreateThread(r)
    \/ \E r \in 1..Len(reqs) : SendChat(r)
    \/ \E r \in 1..Len(reqs) : CreateEvent(r)
    \/ \E r \in 1..Len(reqs) : SendSMS(r)

Spec == Init /\ [][Next]_vars

\* Single deliveries of every kind of envelope, with every CRM answer.
NextWide ==
    \/ Tick
    \/ ReceiveOpenPhone("wide")
    \/ ReceivePlain("wide")
    \/ \E r \in 1..Len(reqs) : Lookup(r, "wide")
    \/ \E r \in 1..Len(reqs) : Upsert(r)
    \/ \E r \in 1..Len(reqs) : Find(r)
    \/ \E r \in 1..Len(reqs) : CreateThread(r)
    \/ \E r \in 1..Len(reqs) : SendChat(r)
    \/ \E r \in 1..Len(reqs) : CreateEvent(r)
    \/ \E r \in 1..Len(reqs) : SendSMS(r)

SpecWide == Init /\ [][NextWide]_vars

\* Deliveries handled at the same time: their fetches interleave.
NextRace ==
    \/ Tick
    \/ ReceiveOpenPhone("race")
    \/ PlainDeliversChat("race")
    \/ AgentChat
    \/ \E r \in 1..Len(reqs) : Lookup(r, "race")
    \/ \E r \in 1..Len(reqs) : Upsert(r)
    \/ \E r \in 1..Len(reqs) : Find(r)
    \/ \E r \in 1..Len(reqs) : CreateThread(r)
    \/ \E r \in 1..Len(reqs) : SendChat(r)
    \/ \E r \in 1..Len(reqs) : CreateEvent(r)
    \/ \E r \in 1..Len(reqs) : SendSMS(r)

SpecRace == Init /\ [][NextRace]_vars

\* Two deliveries to the telephony endpoint, one after the other.
NextPair ==
    \/ Tick
    \/ ReceiveOpenPhone("pair")
    \/ \E r \in 1..Len(reqs) : Lookup(r, "pair")
    \/ \E r \in 1..Len(reqs) : Upsert(r)
    \/ \E r \in 1..Len(reqs) : Find(r)
    \/ \E r \in 1..Len(reqs) : CreateThread(r)
    \/ \E r \in 1..Len(reqs) : SendChat(r)
    \/ \E r \in 1..Len(reqs) : CreateEvent(r)

SpecPair == Init /\ [][NextPair]_vars

\* The deliveries of one number, one after the other, over two days.
NextLate ==
    \/ Tick
    \/ TickLate
    \/ ReceiveOpenPhone("late")
    \/ AgentChat
    \/ \E r \in 1..Len(reqs) : Lookup(r, "late")
    \/ \E r \in 1..Len(reqs) : Upsert(r)
    \/ \E r \in 1..Len(reqs) : Find(r)
    \/ \E r \in 1..Len(reqs) : CreateThread(r)
    \/ \E r \in 1..Len(reqs) : SendChat(r)
    \/ \E r \in 1..Len(reqs) : CreateEvent(r)

SpecLate == Init /\ [][NextLate]_vars

----------------------------------------------------------------------------
(* Properties                                                              *)

Reqs == 1..Len(reqs)

Answered(q) == q.pc = "done"

CallsOf(q, ops) == SelectSeq(q.log, LAMBDA e : e.op \in ops)

CrmOps == {"searchContacts", "searchCompanies"}
TicketingWrites ==
    {"upsertCustomer", "createThread", "createThreadEvent", "sendCustomerChat"}
TicketingOps == TicketingWrites \cup {"listThreads"}
TelephonyOps == {"sendSMS"}

IsChatSent(q) == q.endpoint = "plain" /\ q.type = "thread.chat_sent"

IsMessageReceived(q) == q.endpoint = "openphone" /\ q.type = "message.received"

IsCallCompleted(q) == q.endpoint = "openphone" /\ q.type = "call.completed"

\* C1: a thread.chat_sent event authored by a machineUser makes no outbound
\* telephony call; one authored by a user with a non-empty externalId and text
\* makes exactly one sendSMS call, to that externalId, with that text, from the
\* fixed outbound number.
C1_EchoSuppression ==
    \A r \in Reqs :
        LET q == reqs[r]
            sms == CallsOf(q, TelephonyOps)
        IN  IsChatSent(q) =>
              /\ q.data.actorType = "machineUser" =>
                    /\ sms = <<>>
                    /\ Answered(q)
              /\ (/\ q.data.actorType = "user"
                  /\ q.data.externalId # <<>>
                  /\ q.data.text # <<>>) =>
                    IF Answered(q)
                    THEN /\ Len(sms) = 1
                         /\ sms[1].key = q.data.externalId
                         /\ sms[1].text = q.data.text
                         /\ sms[1].from = OutboundNumber
                    ELSE q.pc = "sms" /\ sms = <<>>

C1_Witness ==
    \E r \in Reqs :
        /\ IsChatSent(reqs[r])
        /\ reqs[r].data.actorType = "user"
        /\ Answered(reqs[r])
        /\ Len(CallsOf(reqs[r], TelephonyOps)) = 1
        /\ reqs[r].status = 200

\* C2: the thread.chat_sent event that Plain delivers for a chat the bridge
\* relayed into a thread (an inbound SMS) never reaches sendSMS.
C2_NoFeedbackLoop ==
    \A r \in Reqs :
        LET q == reqs[r]
        IN  (IsChatSent(q) /\ q.data.chat # 0 /\ chats[q.data.chat].relayed) =>
               /\ q.pc # "sms"
               /\ CallsOf(q, TelephonyOps) = <<>>

C2_Witness ==
    \E r \in Reqs :
        /\ IsChatSent(reqs[r])
        /\ reqs[r].data.chat # 0
        /\ chats[reqs[r].data.chat].relayed
        /\ reqs[r].data.externalId # <<>>
        /\ reqs[r].data.text # <<>>
        /\ reqs[r].status = 200

ListingsOf(q) == CallsOf(q, {"listThreads"})

\* C3: when the listing answers with the customer's most recently created
\* thread on top, findRecentThreadForCustomer returns that thread if and only
\* if now - updatedAt < 12 hours; at exactly 12 hours and beyond it returns none.
C3_WindowBoundary ==
    \A r \in Reqs :
        \A i \in 1..Len(ListingsOf(reqs[r])) :
            LET e == ListingsOf(reqs[r])[i]
            IN  (e.out = "ok" /\ e.thread # 0) =>
                   /\ e.ret = e.thread <=> e.age < TwelveHoursMs
                   /\ e.ret = 0 <=> e.age >= TwelveHoursMs

C3_Witness ==
    \E r \in Reqs :
        \E i \in 1..Len(ListingsOf(reqs[r])) :
            LET e == ListingsOf(reqs[r])[i]
            IN  e.out = "ok" /\ e.thread # 0 /\ e.age = TwelveHoursMs /\ e.ret = 0

\* The other side of the boundary is reached as well.
C3_WitnessInside ==
    \E r \in Reqs :
        \E i \in 1..Len(ListingsOf(reqs[r])) :
            LET e == ListingsOf(reqs[r])[i]
            IN  e.out = "ok" /\ e.age = TwelveHoursMs - 1 /\ e.ret = e.thread

CreatesOf(q) == CallsOf(q, {"createThread"})

RelaysOf(q) == CallsOf(q, {"sendCustomerChat"})

AllOk(q, ops) == \A i \in 1..Len(q.log) : q.log[i].op \in ops => q.log[i].out = "ok"

\* C4, as claimed: a MessageReceived handled less than 12 hours after the last
\* update of a thread T into which an earlier SMS of the same number was relayed
\* creates no thread and is relayed into T (no call of either handler failing).
C4_ReuseOfAnyRelayedThread ==
    \A r \in Reqs :
        LET q == reqs[r]
        IN  (IsMessageReceived(q) /\ Answered(q) /\ q.status = 200
                /\ AllOk(q, TicketingOps)) =>
               \A t \in ListingsOf(q)[1].relayedClean :
                   /\ CreatesOf(q) = <<>>
                   /\ RelaysOf(q)[1].thread = t

\* C4, amended: when the listing answers with T on top (T is still the
\* customer's most recently created thread), an earlier SMS of the number was
\* relayed into T and T was updated less than 12 hours ago, the handler creates
\* no thread and relays the message into T.
C4_ReuseOfLatestThread ==
    \A r \in Reqs :
        LET q == reqs[r]
        IN  \A i \in 1..Len(ListingsOf(q)) :
               LET e == ListingsOf(q)[i]
               IN  (IsMessageReceived(q) /\ e.out = "ok" /\ e.thread \in e.relayedRecent) =>
                      /\ CreatesOf(q) = <<>>
                      /\ q.thread = e.thread
                      /\ q.pc \in {"send", "done"}
                      /\ Answered(q) =>
                            /\ Len(RelaysOf(q)) = 1
                            /\ RelaysOf(q)[1].thread = e.thread

C4_Witness ==
    \E r \in Reqs :
        LET q == reqs[r]
        IN  /\ IsMessageReceived(q) /\ Answered(q) /\ q.status = 200
            /\ Len(ListingsOf(q)) = 1
            /\ ListingsOf(q)[1].out = "ok"
            /\ ListingsOf(q)[1].thread \in ListingsOf(q)[1].relayedRecent
            /\ Len(RelaysOf(q)) = 1
            /\ RelaysOf(q)[1].out = "ok"
            /\ Cardinality({c \in 1..Len(chats) :
                              chats[c].relayed /\ chats[c].thread = q.thread}) = 2

ThreadWritesOf(q) == CallsOf(q, {"createThreadEvent", "sendCustomerChat"})

\* C5: when the listing answers with the customer's latest thread T and T was
\* last updated 12 hours ago or more, the handler creates one new thread, relays
\* the message into it, and issues no write on T.
C5_WindowElapsed ==
    \A r \in Reqs :
        LET q == reqs[r]
        IN  \A i \in 1..Len(ListingsOf(q)) :
               LET e == ListingsOf(q)[i]
               IN  (IsMessageReceived(q) /\ e.out = "ok" /\ e.thread # 0
                       /\ e.age >= TwelveHoursMs) =>
                      /\ Len(CreatesOf(q)) <= 1
                      /\ \A j \in 1..Len(CreatesOf(q)) : CreatesOf(q)[j].thread # e.thread
                      /\ \A j \in 1..Len(ThreadWritesOf(q)) :
                            /\ ThreadWritesOf(q)[j].thread # e.thread
                            /\ Len(CreatesOf(q)) = 1
                            /\ CreatesOf(q)[1].out = "ok"
                            /\ ThreadWritesOf(q)[j].op = "sendCustomerChat"
                            /\ ThreadWritesOf(q)[j].thread = CreatesOf(q)[1].thread
                      /\ (Answered(q) /\ q.status = 200) =>
                            Len(CreatesOf(q)) = 1 /\ Len(RelaysOf(q)) = 1

C5_Witness ==
    \E r \in Reqs :
        LET q == reqs[r]
        IN  /\ IsMessageReceived(q) /\ Answered(q) /\ q.status = 200
            /\ Len(ListingsOf(q)) = 1
            /\ ListingsOf(q)[1].out = "ok"
            /\ ListingsOf(q)[1].thread # 0
            /\ ListingsOf(q)[1].age >= TwelveHoursMs
            /\ Len(RelaysOf(q)) = 1
            /\ RelaysOf(q)[1].out = "ok"
            /\ RelaysOf(q)[1].thread = Len(threads)
            /\ threads[ListingsOf(q)[1].thread].updatedAt + TwelveHoursMs <= now

WritesOf(q) == CallsOf(q, TicketingWrites \cup TelephonyOps)

IsPrefix(s, t) == Len(s) <= Len(t) /\ SubSeq(t, 1, Len(s)) = s

NoCrmMatch(q) == ~q.hubspotContact.some

NoExistingThread(q) ==
    \A i \in 1..Len(ListingsOf(q)) :
        ListingsOf(q)[i].out = "ok" /\ ListingsOf(q)[i].thread = 0

\* C6: a MessageReceived for a number with no thread and no CRM match issues, in
\* this order and with no other ticketing or telephony write, one upsert whose
\* display name is the number, one thread creation titled 'SMS conversation with
\* <number>' and one chat into that thread for that customer, whose text starts
\* with the raw body and is the raw body when there is no media.
C6_FirstContact ==
    \A r \in Reqs :
        LET q == reqs[r]
            w == WritesOf(q)
            n == q.data.from
        IN  (IsMessageReceived(q) /\ NoCrmMatch(q) /\ NoExistingThread(q)) =>
               /\ Len(w) <= 3
               /\ Len(w) >= 1 =>
                     /\ w[1].op = "upsertCustomer"
                     /\ w[1].key = n
                     /\ w[1].text = n
               /\ Len(w) >= 2 =>
                     /\ w[1].out = "ok"
                     /\ w[2].op = "createThread"
                     /\ w[2].customer = w[1].customer
                     /\ w[2].text = <<"SMS conversation with ">> \o n
               /\ Len(w) >= 3 =>
                     /\ w[2].out = "ok"
                     /\ w[3].op = "sendCustomerChat"
                     /\ w[3].customer = w[1].customer
                     /\ w[3].thread = w[2].thread
                     /\ IsPrefix(q.data.body, w[3].text)
                     /\ q.data.media = <<>> => w[3].text = q.data.body
               /\ (Answered(q) /\ q.status = 200) => Len(w) = 3

C6_Witness ==
    \E r \in Reqs :
        LET q == reqs[r]
        IN  /\ IsMessageReceived(q) /\ NoCrmMatch(q)
            /\ Len(ListingsOf(q)) = 1
            /\ NoExistingThread(q)
            /\ Answered(q) /\ q.status = 200
            /\ Len(WritesOf(q)) = 3
            /\ AllOk(q, TicketingOps \cup CrmOps)
            /\ q.data.body # <<>>
            /\ Len(chats) = 1 /\ chats[1].text = q.data.body

PlatformOps == TicketingOps \cup TelephonyOps

\* C7: in every handler, once a call to the ticketing or telephony platform has
\* failed (a rejected fetch or errors in the response), the handler issues no
\* later call.
C7_FailStop ==
    \A r \in Reqs :
        \A i \in 1..Len(reqs[r].log) :
            (reqs[r].log[i].op \in PlatformOps /\ reqs[r].log[i].out # "ok") =>
                i = Len(reqs[r].log)

\* C8: a request is answered 200 only if every ticketing and telephony call of
\* its handler succeeded; if any of them failed the answer is 500.
C8_NoPartialSuccess ==
    \A r \in Reqs :
        Answered(reqs[r]) =>
            /\ reqs[r].status = 200 => AllOk(reqs[r], PlatformOps)
            /\ ~AllOk(reqs[r], PlatformOps) => reqs[r].status = 500

HandledTypes(endpoint) ==
    IF endpoint = "openphone"
    THEN {"call.completed", "call.transcript.completed", "message.received"}
    ELSE {"thread.chat_sent"}

\* C9: on both endpoints an envelope whose type the endpoint does not handle is
\* answered 200 with no outbound call to Plain, OpenPhone or HubSpot.
C9_UnhandledAcknowledged ==
    \A r \in Reqs :
        reqs[r].type \notin HandledTypes(reqs[r].endpoint) =>
            /\ Answered(reqs[r])
            /\ reqs[r].status = 200
            /\ reqs[r].log = <<>>

C9_Witness ==
    \E r \in Reqs :
        /\ reqs[r].endpoint = "openphone"
        /\ reqs[r].type = "message.delivered"
        /\ reqs[r].status = 200

\* The ticketing endpoint acknowledges a telephony type as well.
C9_WitnessPlain ==
    \E r \in Reqs :
        /\ reqs[r].endpoint = "plain"
        /\ reqs[r].type = "message.received"
        /\ reqs[r].status = 200

CrmFailed(q) ==
    \E i \in 1..Len(q.log) : q.log[i].op \in CrmOps /\ q.log[i].out # "ok"

\* C10: whatever the contact search and the company search settle to,
\* lookupHubSpotContact returns (a contact or null) and the handler goes on to
\* the customer upsert; a request is answered 500 only after a failed ticketing
\* or telephony call.
C10_EnrichmentNeverFails ==
    \A r \in Reqs :
        LET q == reqs[r]
        IN  /\ (CallsOf(q, CrmOps) # <<>> /\ CallsOf(q, PlatformOps) = <<>>) =>
                  /\ q.pc = "upsert"
                  /\ q.status = 0
            /\ q.status = 500 => ~AllOk(q, PlatformOps)
            /\ q.hubspotContact.some =>
                  \E i \in 1..Len(q.log) : q.log[i].op \in CrmOps /\ q.log[i].out = "ok"

C10_Witness ==
    \E r \in Reqs :
        LET q == reqs[r]
        IN  /\ CallsOf(q, CrmOps) =
                  <<[Entry("searchContacts", "badBody") EXCEPT !.key = q.data.from],
                    [Entry("searchCompanies", "rejected") EXCEPT !.key = q.data.from]>>
            /\ CallsOf(q, {"upsertCustomer"}) # <<>>
            /\ q.status = 200

UpsertsOf(q) == CallsOf(q, {"upsertCustomer"})

Separators == {" ", "-", "(", ")", "."}

\* A number with its formatting characters removed.
Unformatted(s) == SelectSeq(s, LAMBDA t : t \notin Separators)

SameNumber(a, b) == Unformatted(a) = Unformatted(b)

\* C12: two spellings of one phone number resolve to the same customer: no two
\* customer records have external ids that are spellings of the same number.
C12_IdempotentIdentity ==
    \A i, j \in 1..Len(customers) :
        SameNumber(customers[i].externalId, customers[j].externalId) => i = j

\* The numbers a sender can mean, in E.164 without formatting.
KnownNumbers == {Unformatted(p) : p \in PhoneForms \cup Phones}

Parseable(s) == Unformatted(s) \in KnownNumbers

\* C13: a MessageReceived or CallCompleted whose counterparty value is not a
\* phone number is answered 500 and issues no customer upsert, thread creation,
\* thread event or chat.
C13_InvalidIdentity ==
    \A r \in Reqs :
        LET q == reqs[r]
        IN  ((IsMessageReceived(q) \/ IsCallCompleted(q)) /\ ~Parseable(PhoneNumberOf(q))) =>
               /\ CallsOf(q, TicketingWrites) = <<>>
               /\ Answered(q) => q.status = 500

EventsOf(q) == CallsOf(q, {"createThreadEvent"})

Counterparty(q) == IF q.data.direction = "incoming" THEN q.data.from ELSE q.data.to

\* C14: a CallCompleted handler looks up and upserts the counterparty number
\* (from for an incoming call, to for an outgoing one), never lists the
\* customer's threads, relays no chat, creates one thread for the upserted
\* customer and appends one 'Call Completed' event, to that new thread; a handler
\* that is answered 200 has done all of it.
C14_CallOpensNewThread ==
    \A r \in Reqs :
        LET q == reqs[r]
        IN  IsCallCompleted(q) =>
               /\ ListingsOf(q) = <<>>
               /\ RelaysOf(q) = <<>>
               /\ \A i \in 1..Len(q.log) :
                     q.log[i].op \in CrmOps \cup {"upsertCustomer"} =>
                        q.log[i].key = Counterparty(q)
               /\ Len(UpsertsOf(q)) <= 1 /\ Len(CreatesOf(q)) <= 1 /\ Len(EventsOf(q)) <= 1
               /\ CreatesOf(q) # <<>> =>
                     /\ UpsertsOf(q) # <<>>
                     /\ UpsertsOf(q)[1].out = "ok"
                     /\ CreatesOf(q)[1].customer = UpsertsOf(q)[1].customer
                     /\ CreatesOf(q)[1].text =
                           <<"Call ", IF q.data.direction = "incoming" THEN "from" ELSE "to",
                             " ">> \o Counterparty(q)
               /\ EventsOf(q) # <<>> =>
                     /\ CreatesOf(q) # <<>>
                     /\ CreatesOf(q)[1].out = "ok"
                     /\ EventsOf(q)[1].thread = CreatesOf(q)[1].thread
               /\ \A e \in 1..Len(events) :
                     (CreatesOf(q) # <<>> /\ events[e].thread = CreatesOf(q)[1].thread) =>
                        Cardinality({f \in 1..Len(events) :
                                        events[f].thread = events[e].thread}) = 1
               /\ (Answered(q) /\ q.status = 200) =>
                     Len(CreatesOf(q)) = 1 /\ Len(EventsOf(q)) = 1

\* An outgoing call of a number whose SMS thread was updated within the window.
C14_Witness ==
    \E r \in Reqs :
        LET q == reqs[r]
        IN  /\ IsCallCompleted(q) /\ Answered(q) /\ q.status = 200
            /\ q.data.direction = "outgoing"
            /\ AllOk(q, TicketingOps)
            /\ q.thread = 2
            /\ threads[1].customer = q.customer
            /\ threads[2].customer = q.customer
            /\ threads[1].title = <<"SMS conversation with ">> \o q.data.to
            /\ now - threads[1].updatedAt < TwelveHoursMs
            /\ Len(events) = 1 /\ events[1].thread = 2

IsCallThread(t) == Head(threads[t].title) = "Call "

\* C15: no MessageReceived handler relays its message into a thread that the
\* CallCompleted handler created.
C15_CallThreadNeverReused ==
    \A r \in Reqs :
        IsMessageReceived(reqs[r]) =>
            \A i \in 1..Len(RelaysOf(reqs[r])) :
                ~IsCallThread(RelaysOf(reqs[r])[i].thread)

AllOps == CrmOps \cup TicketingOps \cup TelephonyOps

\* C16: for every delivery, each outbound call (customer upsert, thread
\* creation, thread event, chat, SMS, and the reads as well) is issued at most
\* once, whether it succeeded or failed; a delivery is handled by one request and
\* a request that was answered is not taken up again.
C16_AtMostOnce ==
    /\ Len(reqs) <= received
    /\ \A r \in Reqs :
          /\ \A op \in AllOps : Len(CallsOf(reqs[r], {op})) <= 1
          /\ reqs[r].status = 500 => Answered(reqs[r])

\* A thread creation failed and the request was answered 500 after one attempt.
C16_Witness ==
    \E r \in Reqs :
        LET q == reqs[r]
        IN  /\ Answered(q) /\ q.status = 500
            /\ Len(CreatesOf(q)) = 1
            /\ CreatesOf(q)[1].out = "errors"
            /\ q.log[Len(q.log)].op = "createThread"
            /\ threads = <<>>

\* C17: a thread.chat_sent event whose externalId or chat text is absent or
\* empty is answered 200 with no outbound call, whatever its actorType (none
\* included).
C17_AbsentFieldsNoOp ==
    \A r \in Reqs :
        LET q == reqs[r]
        IN  (IsChatSent(q) /\ (q.data.externalId = <<>> \/ q.data.text = <<>>)) =>
               /\ Answered(q)
               /\ q.status = 200
               /\ q.log = <<>>

C17_Witness ==
    \E r \in Reqs :
        LET q == reqs[r]
        IN  /\ IsChatSent(q)
            /\ q.data.externalId = <<>>
            /\ q.data.text # <<>>
            /\ q.data.actorType = "undefined"
            /\ q.status = 200
            /\ q.log = <<>>

\* The text is the absent field, and the author is a human agent.
C17_WitnessText ==
    \E r \in Reqs :
        LET q == reqs[r]
        IN  /\ IsChatSent(q)
            /\ q.data.externalId # <<>>
            /\ q.data.text = <<>>
            /\ q.data.actorType = "user"
            /\ q.status = 200

\* The requests that are inside findRecentThreadForCustomer.
Finding == Cardinality({r \in Reqs : reqs[r].pc = "find"})

\* The calls, other than thread listings, that the requests have issued.
OtherCalls ==
    Cardinality({p \in UNION {{<<r, i>> : i \in 1..Len(reqs[r].log)} : r \in Reqs} :
                    reqs[p[1]].log[p[2]].op # "listThreads"})

\* C18: a step in which a request comes out of findRecentThreadForCustomer (with
\* a thread, with none, or with none after a failed listing) leaves Plain's
\* customers, threads, chats and thread events as they were and issues no call
\* other than the listing.
C18_FindIsReadOnly ==
    [][Finding' < Finding =>
          /\ UNCHANGED <<customers, threads, chats, events>>
          /\ OtherCalls' <= OtherCalls]_vars

\* The listing failed while the customer had a thread, and the thread is as it was.
C18_Witness ==
    \E r \in Reqs :
        \E i \in 1..Len(ListingsOf(reqs[r])) :
            LET e == ListingsOf(reqs[r])[i]
            IN  /\ e.out = "errors"
                /\ reqs[r].pc = "create"
                /\ \E t \in CustomerThreads(e.customer) :
                      threads[t].updatedAt = threads[t].createdAt /\ threads[t].updatedAt < now

\* The listing returned a thread.
C18_WitnessFound ==
    \E r \in Reqs :
        \E i \in 1..Len(ListingsOf(reqs[r])) :
            LET e == ListingsOf(reqs[r])[i]
            IN  e.out = "ok" /\ e.ret # 0 /\ reqs[r].pc = "send"
                  /\ threads[e.ret].updatedAt < now

\* One 'type: url' line per attachment, in the order of the list.
RECURSIVE AttachmentLines(_)
AttachmentLines(media) ==
    IF media = <<>> THEN <<>>
    ELSE <<media[1].type, ": ", media[1].url>>
            \o (IF Len(media) > 1 THEN <<"\n">> ELSE <<>>)
            \o AttachmentLines(Tail(media))

\* C19: the text relayed for a MessageReceived with body b and media m1..mn is b,
\* then (after a blank line, when both are there) one 'type: url' line per
\* attachment in attachment order; it is b when n = 0 and the attachment lines
\* alone when b is empty.
C19_MediaFlattening ==
    \A r \in Reqs :
        LET q == reqs[r]
        IN  IsMessageReceived(q) =>
               \A i \in 1..Len(RelaysOf(q)) :
                   LET text == RelaysOf(q)[i].text
                   IN  /\ text = q.data.body
                                    \o (IF q.data.body # <<>> /\ q.data.media # <<>>
                                        THEN <<"\n\n">> ELSE <<>>)
                                    \o AttachmentLines(q.data.media)
                       /\ q.data.media = <<>> => text = q.data.body
                       /\ q.data.body = <<>> => text = AttachmentLines(q.data.media)

C19_Witness ==
    \E r \in Reqs :
        /\ IsMessageReceived(reqs[r]) /\ reqs[r].status = 200
        /\ Len(reqs[r].data.media) = 2
        /\ Len(chats) = 1
        /\ chats[1].text = <<"hello", "\n\n",
                             "image/png", ": ", "https://m.example/1.png", "\n",
                             "video/mp4", ": ", "https://m.example/2.mp4">>

\* An empty body with two attachments.
C19_WitnessNoBody ==
    \E r \in Reqs :
        /\ IsMessageReceived(reqs[r]) /\ reqs[r].status = 200
        /\ reqs[r].data.body = <<>>
        /\ Len(chats) = 1
        /\ chats[1].text = <<"image/png", ": ", "https://m.example/1.png", "\n",
                             "video/mp4", ": ", "https://m.example/2.mp4">>

PlaceholderEmail(phoneNumber) == phoneNumber \o <<"@phone.maple.inc">>

\* C20: a customer upsert for a number with no enrichment email carries the
\* placeholder email <number>@phone.maple.inc in its create fields.
C20_PlaceholderEmail ==
    \A r \in Reqs :
        \A i \in 1..Len(UpsertsOf(reqs[r])) :
            reqs[r].hubspotContact.email = <<>> =>
                UpsertsOf(reqs[r])[i].email = PlaceholderEmail(UpsertsOf(reqs[r])[i].key)

\* The request has just come out of the listing: its last call is the listing.
JustListed(q) == q.log # <<>> /\ q.log[Len(q.log)].op = "listThreads"

\* C21: the thread findRecentThreadForCustomer returns, when it returns one, is
\* the entry on top of the listing, which no thread of the customer was created
\* after; when that entry was last updated 12 hours ago or more it returns none
\* and the handler goes on to create a thread, whatever the other threads of
\* the customer are.
C21_OnlyLatestIsCandidate ==
    \A r \in Reqs :
        LET q == reqs[r]
        IN  \A i \in 1..Len(ListingsOf(q)) :
               LET e == ListingsOf(q)[i]
               IN  (e.out = "ok" /\ e.thread # 0) =>
                      /\ e.ret \in {0, e.thread}
                      /\ e.age >= TwelveHoursMs =>
                            /\ e.ret = 0
                            /\ JustListed(q) => q.pc = "create"
                            /\ \A j \in 1..Len(RelaysOf(q)) :
                                  /\ CreatesOf(q) # <<>>
                                  /\ RelaysOf(q)[j].thread = CreatesOf(q)[1].thread
                      /\ JustListed(q) =>
                            \A u \in 1..Len(threads) :
                                threads[u].customer = e.customer =>
                                    threads[u].createdAt <= threads[e.thread].createdAt

\* The thread created last was updated 12 hours ago, a thread created before it
\* was updated since, and the message went into a new thread.
C21_Witness ==
    \E r \in Reqs :
        LET q == reqs[r]
        IN  /\ IsMessageReceived(q) /\ Answered(q) /\ q.status = 200
            /\ Len(ListingsOf(q)) = 1
            /\ ListingsOf(q)[1].out = "ok"
            /\ ListingsOf(q)[1].thread = 2
            /\ ListingsOf(q)[1].ret = 0
            /\ Len(threads) = 3
            /\ \A t \in 1..3 : threads[t].customer = q.customer
            /\ threads[1].createdAt < threads[2].createdAt
            /\ now - threads[2].updatedAt >= TwelveHoursMs
            /\ now - threads[1].updatedAt < TwelveHoursMs
            /\ RelaysOf(q)[1].thread = 3

Yields(e) == e.out = "ok" /\ e.results # <<>>

FromContact(hit) ==
    [some |-> TRUE, firstName |-> hit.firstname, lastName |-> hit.lastname,
     email |-> hit.email, phone |-> hit.phone]

FromCompany(hit, phoneNumber) ==
    [some |-> TRUE, firstName |-> IF hit.name # <<>> THEN hit.name ELSE phoneNumber,
     lastName |-> <<>>,
     email |-> IF hit.domain # <<>> THEN <<"info@">> \o hit.domain ELSE <<>>,
     phone |-> hit.phone]

\* C22: whenever the contact search yields a contact, lookupHubSpotContact
\* returns the first contact's data, whatever the company search settled to; it
\* returns company data only when the contact search yields none; and it
\* returns null when neither search yields a result.
C22_EnrichmentPrecedence ==
    \A r \in Reqs :
        LET q == reqs[r]
            c == CallsOf(q, {"searchContacts"})
            k == CallsOf(q, {"searchCompanies"})
        IN  (c # <<>> /\ k # <<>>) =>
               /\ Yields(c[1]) => q.hubspotContact = FromContact(c[1].results[1])
               /\ (Yields(k[1]) /\ q.hubspotContact = FromCompany(k[1].results[1], k[1].key)) =>
                     ~Yields(c[1])
               /\ (~Yields(c[1]) /\ ~Yields(k[1])) => q.hubspotContact = NullContact

\* The listing of the request found no thread to reuse.
FoundNoThread(q) ==
    /\ ListingsOf(q) # <<>>
    /\ ListingsOf(q)[1].out = "ok"
    /\ ListingsOf(q)[1].ret = 0

\* C23: two MessageReceived of one number that are handled at the same time,
\* neither of which found a thread to reuse, create at most one thread between
\* them and relay into the same thread.
C23_ConcurrentMessagesShareThread ==
    \A r1, r2 \in Reqs :
        LET q1 == reqs[r1]
            q2 == reqs[r2]
        IN  (/\ r1 # r2
             /\ IsMessageReceived(q1) /\ IsMessageReceived(q2)
             /\ q1.data.from = q2.data.from
             /\ FoundNoThread(q1) /\ FoundNoThread(q2)) =>
               /\ ~(/\ CreatesOf(q1) # <<>> /\ CreatesOf(q1)[1].out = "ok"
                    /\ CreatesOf(q2) # <<>> /\ CreatesOf(q2)[1].out = "ok")
               /\ (RelaysOf(q1) # <<>> /\ RelaysOf(q2) # <<>>) =>
                     RelaysOf(q1)[1].thread = RelaysOf(q2)[1].thread

\* C24: every chat a MessageReceived handler sends goes to a thread of the
\* customer whose external id is the sender's number, with that customer as
\* its author; every relayed chat Plain holds is in a thread of its own customer.
C24_RelayTargetOwnership ==
    /\ \A r \in Reqs :
          LET q == reqs[r]
          IN  IsMessageReceived(q) =>
                 \A i \in 1..Len(RelaysOf(q)) :
                     LET e == RelaysOf(q)[i]
                     IN  /\ e.customer \in 1..Len(customers)
                         /\ customers[e.customer].externalId = q.data.from
                         /\ e.thread \in 1..Len(threads)
                         /\ threads[e.thread].customer = e.customer
    /\ \A c \in 1..Len(chats) :
          chats[c].relayed => threads[chats[c].thread].customer = chats[c].customer

\* Two numbers are being handled at the same time: one handler has relayed its
\* message while the other is about to, each into a thread of its own customer.
C24_Witness ==
    \E r1, r2 \in Reqs :
        /\ IsMessageReceived(reqs[r1]) /\ IsMessageReceived(reqs[r2])
        /\ reqs[r1].data.from # reqs[r2].data.from
        /\ Len(customers) = 2
        /\ Len(RelaysOf(reqs[r1])) = 1
        /\ RelaysOf(reqs[r1])[1].out = "ok"
        /\ reqs[r2].pc = "send"
        /\ reqs[r2].thread # RelaysOf(reqs[r1])[1].thread
        /\ threads[reqs[r2].thread].customer # RelaysOf(reqs[r1])[1].customer

====
